---- MODULE Spec2Model ----
(***************************************************************************)
(* A model of pdm's PyProject (src/Repo/src/pdm/project/project_file.py):   *)
(* the pyproject.toml document, the accessors that auto-vivify tables, the  *)
(* merged view of the dependency groups (dev_dependencies), the content     *)
(* hash and the pruning done by write().                                    *)
(*                                                                         *)
(* A document value is a node [kind, s, items]:                             *)
(*   kind = "str"   : a string, s its text;                                 *)
(*   kind = "list"  : an array, items the sequence of its element nodes;    *)
(*   kind = "table" : a dict/table, items the sequence of its entries       *)
(*                    [k |-> key, v |-> node] in insertion order.           *)
(***************************************************************************)
EXTENDS Integers, Sequences, FiniteSets, TLC

VARIABLES
    data,     \* PyProject._data, the document
    pre,      \* the document on entry to the last operation
    lastOp,   \* the operation that ran last
    ret,      \* what the last operation returned or raised
    twinRet,  \* content_hash of the same manifest with its keys reordered
    handle    \* the table the dependency_groups accessor handed out (a path)

vars == <<data, pre, lastOp, ret, twinRet, handle>>

----------------------------------------------------------------------------
(* Bounds of the model. *)

\* the most groups a legacy or a modern table of an initial manifest holds
MaxGroups == 2

\* the group names the manifests and the callers use
GroupNames == {"Test", "test", "doc"}

----------------------------------------------------------------------------
(* Document values and the dict operations the code uses on them. *)

Str(s) == [kind |-> "str", s |-> s, items |-> <<>>]

List(xs) == [kind |-> "list", s |-> "", items |-> xs]

Table(kvs) == [kind |-> "table", s |-> "", items |-> kvs]

Entry(key, v) == [k |-> key, v |-> v]

EmptyTable == Table(<<>>)

EmptyList == List(<<>>)

IsTable(n) == n.kind = "table"

IsList(n) == n.kind = "list"

\* dict.keys() as a set
KeySet(t) == {t.items[i].k : i \in DOMAIN t.items}

\* key in dict
Has(t, key) == key \in KeySet(t)

IndexOf(t, key) == CHOOSE i \in DOMAIN t.items : t.items[i].k = key

\* dict.get(key, default)
Get(t, key, default) ==
    IF Has(t, key) THEN t.items[IndexOf(t, key)].v ELSE default

\* dict[key] = v : an existing key keeps its place, a new key goes last
Put(t, key, v) ==
    IF Has(t, key)
    THEN Table([t.items EXCEPT ![IndexOf(t, key)] = Entry(key, v)])
    ELSE Table(Append(t.items, Entry(key, v)))

\* dict.setdefault(key, default), as the dict it leaves behind
SetDefault(t, key, default) ==
    IF Has(t, key) THEN t ELSE Put(t, key, default)

\* truth value of a table (`if not v`)
IsEmpty(t) == t.items = <<>>

\* a cross-reference entry {include-group = "<name>"}
IncludeGroup(name) == Table(<<Entry("include-group", Str(name))>>)

----------------------------------------------------------------------------
(* pdm.utils.normalize_name: lowercase, runs of separators become "-".     *)
(* Over the names of the model only "Test" changes.                         *)

NormalizeName(name) ==
    CASE name = "Test" -> "test"
      [] OTHER -> name

----------------------------------------------------------------------------
(* The properties `metadata` and `settings`: setdefault on the document.   *)

\* the document after `self.metadata`
MetadataAccess(d) == SetDefault(d, "project", EmptyTable)

\* the table `self.metadata` returns
MetadataOf(d) == Get(d, "project", EmptyTable)

\* the document after `self.settings`
SettingsAccess(d) ==
    LET d1 == SetDefault(d, "tool", EmptyTable)
    IN  Put(d1, "tool", SetDefault(Get(d1, "tool", EmptyTable), "pdm", EmptyTable))

\* the table `self.settings` returns
SettingsOf(d) == Get(Get(d, "tool", EmptyTable), "pdm", EmptyTable)

----------------------------------------------------------------------------
(* dev_dependencies: the merged view of the legacy and the modern groups.  *)

\* the legacy table tool.pdm.dev-dependencies as dev_dependencies reads it
LegacyTable(d) == Get(SettingsOf(d), "dev-dependencies", EmptyTable)

\* the modern table dependency-groups as dev_dependencies reads it
ModernTable(d) == Get(d, "dependency-groups", EmptyTable)

\* the table project.optional-dependencies
OptionalTable(d) == Get(MetadataOf(d), "optional-dependencies", EmptyTable)

\* mutant: a later legacy key of the same normalized name replaces the earlier
LegacyStepOverwrite(groups, key, deps) ==
    Put(groups, NormalizeName(key), IF IsList(deps) THEN deps ELSE List(<<deps>>))

\* mutant: the group is stored under the key as written, not normalized
LegacyStepRawKey(groups, key, deps) ==
    LET cur == Get(groups, key, EmptyList)
    IN  Put(groups, key,
            IF IsList(deps) THEN List(cur.items \o deps.items)
                            ELSE List(Append(cur.items, deps)))

\* one round of the loop over the legacy table: setdefault, then extend with
\* a list or append a bare value
LegacyStep(groups, key, deps) ==
    LET group == NormalizeName(key)
        cur   == Get(groups, group, EmptyList)
    IN  Put(groups, group,
            IF IsList(deps) THEN List(cur.items \o deps.items)
                            ELSE List(Append(cur.items, deps)))

RECURSIVE MergeLegacy(_, _, _)
\* the loop over the legacy table, from entry i on
MergeLegacy(items, i, groups) ==
    IF i > Len(items) THEN groups
    ELSE MergeLegacy(items, i + 1, LegacyStep(groups, items[i].k, items[i].v))

\* isinstance(dep, dict) and "include-group" in dep
IsIncludeGroup(dep) == IsTable(dep) /\ Has(dep, "include-group")

\* all_available_groups: the legacy keys and the optional-dependencies keys
AvailableGroups(d) == KeySet(LegacyTable(d)) \cup KeySet(OptionalTable(d))

\* the positions of a list whose entries are cross-references
RefPositions(deps) == {i \in DOMAIN deps.items : IsIncludeGroup(deps.items[i])}

\* the target of the cross-reference at position i
TargetAt(deps, i) == Get(deps.items[i], "include-group", Str("")).s

\* the positions whose target is not among the available groups
BadPositions(deps, avail) == {i \in RefPositions(deps) : TargetAt(deps, i) \notin avail}

Min(S) == CHOOSE x \in S : \A y \in S : x <= y

\* mutant: a modern group replaces a legacy group of the same normalized name
ModernStepOverride(acc, key, deps, avail) ==
    IF acc.failed THEN acc
    ELSE LET group == NormalizeName(key)
         IN  IF IsList(deps)
             THEN IF BadPositions(deps, avail) # {}
                  THEN [acc EXCEPT !.failed = TRUE, !.touched = TRUE,
                                   !.missing = TargetAt(deps, Min(BadPositions(deps, avail)))]
                  ELSE [acc EXCEPT !.groups = Put(@, group, deps),
                                   !.touched = @ \/ RefPositions(deps) # {}]
             ELSE [acc EXCEPT !.groups = Put(@, group, List(<<deps>>))]

\* one round of the loop over the modern table. acc.failed: PdmUsageError was
\* raised (naming acc.missing); acc.touched: self.metadata was evaluated
ModernStep(acc, key, deps, avail) ==
    IF acc.failed THEN acc
    ELSE LET group == NormalizeName(key)
         IN  IF Has(acc.groups, group) THEN acc
             ELSE IF IsList(deps)
             THEN IF BadPositions(deps, avail) # {}
                  THEN [acc EXCEPT !.failed = TRUE, !.touched = TRUE,
                                   !.missing = TargetAt(deps, Min(BadPositions(deps, avail)))]
                  ELSE [acc EXCEPT !.groups = Put(@, group, deps),
                                   !.touched = @ \/ RefPositions(deps) # {}]
             ELSE [acc EXCEPT !.groups = Put(@, group, List(<<deps>>))]

RECURSIVE MergeModern(_, _, _, _)
\* the loop over the modern table, from entry i on
MergeModern(items, i, acc, avail) ==
    IF i > Len(items) THEN acc
    ELSE MergeModern(items, i + 1, ModernStep(acc, items[i].k, items[i].v, avail), avail)

\* what an operation leaves: the document, and the value returned or the
\* group named by the error raised
Returned(d, value) == [data |-> d, status |-> "ok", value |-> value, missing |-> ""]

Raised(d, name) == [data |-> d, status |-> "error", value |-> EmptyTable, missing |-> name]

NoResult == [status |-> "none", value |-> EmptyTable, missing |-> ""]

ResultOf(run) == [status |-> run.status, value |-> run.value, missing |-> run.missing]

\* the property dev_dependencies on document d
DevDependencies(d) ==
    LET d1    == SettingsAccess(d)
        seed  == MergeLegacy(LegacyTable(d1).items, 1, EmptyTable)
        acc   == MergeModern(ModernTable(d1).items, 1,
                             [groups |-> seed, failed |-> FALSE,
                              touched |-> FALSE, missing |-> ""],
                             AvailableGroups(d1))
        d2    == IF acc.touched THEN MetadataAccess(d1) ELSE d1
    IN  IF acc.failed THEN Raised(d2, acc.missing) ELSE Returned(d2, acc.groups)

----------------------------------------------------------------------------
(* content_hash: json.dumps(dump_data, sort_keys=True), then the digest.   *)

\* the keys of the model in the order Python sorts strings (by code point)
KeyOrder ==
    <<"Test", "dependencies", "dev-dependencies", "doc", "include-group",
      "name", "optional-dependencies", "overrides", "requires-python",
      "resolution", "sources", "test">>

KeyRank(key) == CHOOSE i \in DOMAIN KeyOrder : KeyOrder[i] = key

RECURSIVE SortEntries(_)
\* the entries of a dict in sorted key order (selection of the least key)
SortEntries(items) ==
    IF items = <<>> THEN <<>>
    ELSE LET m == CHOOSE i \in DOMAIN items :
                      \A j \in DOMAIN items : KeyRank(items[i].k) <= KeyRank(items[j].k)
             rest == [j \in 1..(Len(items) - 1) |-> IF j < m THEN items[j] ELSE items[j + 1]]
         IN  <<items[m]>> \o SortEntries(rest)

RECURSIVE JsonDumpsSorted(_)
\* json.dumps(..., sort_keys=True): every dict is written with its keys
\* sorted, every list in its own order
JsonDumpsSorted(n) ==
    CASE n.kind = "str"   -> n
      [] n.kind = "list"  -> List([i \in DOMAIN n.items |-> JsonDumpsSorted(n.items[i])])
      [] n.kind = "table" ->
            LET sorted == SortEntries(n.items)
            IN  Table([i \in DOMAIN sorted |->
                          Entry(sorted[i].k, JsonDumpsSorted(sorted[i].v))])

\* content_hash on document d; the value is pyproject_content, the text
\* that is hashed
ContentHash(d) ==
    LET d1  == MetadataAccess(SettingsAccess(d))
        dev == DevDependencies(d1)
        d2  == dev.data
        dump_data == Table(<<
            Entry("sources", Get(SettingsOf(d1), "source", EmptyList)),
            Entry("dependencies", Get(MetadataOf(d1), "dependencies", EmptyList)),
            Entry("dev-dependencies", dev.value),
            Entry("optional-dependencies", OptionalTable(d2)),
            Entry("requires-python", Get(MetadataOf(d2), "requires-python", Str(""))),
            Entry("resolution", Get(SettingsOf(d2), "resolution", EmptyTable)) >>)
    IN  IF dev.status = "error" THEN Raised(d2, dev.missing)
        ELSE Returned(d2, JsonDumpsSorted(dump_data))

RECURSIVE ReverseKeys(_)
\* the same manifest with the keys of every table written in reverse order
ReverseKeys(n) ==
    CASE n.kind = "str"   -> n
      [] n.kind = "list"  -> List([i \in DOMAIN n.items |-> ReverseKeys(n.items[i])])
      [] n.kind = "table" ->
            Table([i \in DOMAIN n.items |->
                      Entry(n.items[Len(n.items) + 1 - i].k,
                            ReverseKeys(n.items[Len(n.items) + 1 - i].v))])

----------------------------------------------------------------------------
(* write(): _remove_empty_tables on project and on tool.pdm.               *)

\* mutant: only the empty tables directly inside doc are removed
RemoveEmptyTablesShallow(doc) ==
    Table(SelectSeq(doc.items, LAMBDA e : ~(IsTable(e.v) /\ IsEmpty(e.v))))

RECURSIVE RemoveEmptyTables(_)
\* _remove_empty_tables(doc), as the dict it leaves behind
RemoveEmptyTables(doc) ==
    LET pruned == [i \in DOMAIN doc.items |->
                      IF IsTable(doc.items[i].v)
                      THEN Entry(doc.items[i].k, RemoveEmptyTables(doc.items[i].v))
                      ELSE doc.items[i]]
    IN  Table(SelectSeq(pruned, LAMBDA e : ~(IsTable(e.v) /\ IsEmpty(e.v))))

\* the document write() hands to super().write()
WritePrune(d) ==
    LET d1 == IF Has(d, "project")
              THEN Put(d, "project", RemoveEmptyTables(Get(d, "project", EmptyTable)))
              ELSE d
        tool == Get(d1, "tool", EmptyTable)
    IN  IF Has(d1, "tool") /\ Has(tool, "pdm")
        THEN Put(d1, "tool", Put(tool, "pdm", RemoveEmptyTables(Get(tool, "pdm", EmptyTable))))
        ELSE d1

----------------------------------------------------------------------------
(* dependency_groups: the accessor and the table it hands out.             *)

NoHandle == <<>>

ModernPath == <<"dependency-groups">>

LegacyPath == <<"tool", "pdm", "dev-dependencies">>

RECURSIVE TableAt(_, _)
\* the table at a path of the document (empty when absent)
TableAt(d, path) ==
    IF path = <<>> THEN d ELSE TableAt(Get(d, Head(path), EmptyTable), Tail(path))

RECURSIVE PutAt(_, _, _, _)
\* table[key] = v on the table at a path that exists in the document
PutAt(d, path, key, v) ==
    IF path = <<>> THEN Put(d, key, v)
    ELSE Put(d, Head(path), PutAt(Get(d, Head(path), EmptyTable), Tail(path), key, v))

\* mutant: the accessor falls back to the legacy table of the settings
DependencyGroupsLegacy(d) ==
    LET d1 == SettingsAccess(d)
    IN  [data |-> PutAt(d1, <<"tool">>, "pdm",
                        SetDefault(SettingsOf(d1), "dev-dependencies", EmptyTable)),
         handle |-> LegacyPath]

\* the property dependency_groups: setdefault("dependency-groups", {}) and
\* the table it returns
DependencyGroups(d) ==
    [data |-> SetDefault(d, "dependency-groups", EmptyTable), handle |-> ModernPath]

\* safe_item(key) on the table handed out: a missing key gets an empty array
SafeItem(d, path, key) ==
    IF Has(TableAt(d, path), key) THEN d ELSE PutAt(d, path, key, EmptyList)

\* get_dependency_group_safe(group_name)
GetDependencyGroupSafe(d, name) ==
    LET d1 == MetadataAccess(d)
        d2 == SettingsAccess(d1)
    IN  IF Has(OptionalTable(d1), name)
        THEN Returned(d1, Get(OptionalTable(d1), name, EmptyList))
        ELSE IF Has(LegacyTable(d2), name)
        THEN Returned(d2, Get(LegacyTable(d2), name, EmptyList))
        ELSE IF Has(ModernTable(d2), name)
        THEN Returned(d2, Get(ModernTable(d2), name, EmptyList))
        ELSE Returned(d2, EmptyList)

----------------------------------------------------------------------------
(* The manifests a PyProject is loaded from.                                *)

\* the key orders of a table: distinct group names, at most MaxGroups
KeySeqs ==
    {s \in UNION {[1..m -> GroupNames] : m \in 0..MaxGroups} :
        \A i, j \in DOMAIN s : i # j => s[i] # s[j]}

\* a legacy group: a list of requirement strings, or a bare string
LegacyValue(name) ==
    CASE name = "test" -> List(<<Str("l1")>>)
      [] name = "Test" -> Str("l2")
      [] OTHER         -> List(<<Str("l3")>>)

\* a modern group: requirement strings and cross-references, or a bare string
ModernValue(name) ==
    CASE name = "test" -> List(<<Str("m1"), IncludeGroup("doc")>>)
      [] name = "Test" -> Str("m3")
      [] OTHER         -> List(<<Str("m2"), IncludeGroup("test")>>)

LegacyOf(keys) == Table([i \in DOMAIN keys |-> Entry(keys[i], LegacyValue(keys[i]))])

ModernOf(keys) == Table([i \in DOMAIN keys |-> Entry(keys[i], ModernValue(keys[i]))])

Layouts == {"bare", "optional", "full"}

\* the sections of a manifest that declares only its non-empty tables
BareSections(legacy, modern) ==
    (IF IsEmpty(modern) THEN <<>> ELSE <<Entry("dependency-groups", modern)>>)
    \o
    (IF IsEmpty(legacy) THEN <<>>
     ELSE <<Entry("tool", Table(<<Entry("pdm", Table(<<Entry("dev-dependencies", legacy)>>))>>))>>)

\* a parsed pyproject.toml
Manifest(layout, legacy, modern) ==
    CASE layout = "bare" -> Table(BareSections(legacy, modern))
      [] layout = "optional" ->
            Table(<<Entry("project", Table(<<
                        Entry("optional-dependencies",
                              Table(<<Entry("doc", List(<<Str("mkdocs")>>))>>))>>))>>
                  \o BareSections(legacy, modern))
      [] layout = "full" ->
            Table(<<
                Entry("project", Table(<<
                    Entry("dependencies", List(<<Str("d1")>>)),
                    Entry("requires-python", Str(">=3.9")),
                    Entry("optional-dependencies", EmptyTable)>>)),
                Entry("dependency-groups", modern),
                Entry("tool", Table(<<
                    Entry("pdm", Table(<<
                        Entry("source", List(<<Table(<<Entry("name", Str("pypi"))>>)>>)),
                        Entry("dev-dependencies", legacy),
                        Entry("resolution", Table(<<Entry("overrides", EmptyTable)>>))>>))>>))>>)

\* the keys a caller writes through the table handed out
CallerKeys == {"test"}

----------------------------------------------------------------------------
(* The state machine.                                                       *)

Init ==
    /\ \E layout \in Layouts, lk \in KeySeqs, mk \in KeySeqs :
           data = Manifest(layout, LegacyOf(lk), ModernOf(mk))
    /\ pre = data
    /\ lastOp = "read"
    /\ ret = NoResult
    /\ twinRet = NoResult
    /\ handle = NoHandle

\* pyproject.metadata
Metadata ==
    /\ data' = MetadataAccess(data)
    /\ pre' = data
    /\ lastOp' = "metadata"
    /\ ret' = NoResult
    /\ twinRet' = NoResult
    /\ UNCHANGED handle

\* pyproject.settings
Settings ==
    /\ data' = SettingsAccess(data)
    /\ pre' = data
    /\ lastOp' = "settings"
    /\ ret' = NoResult
    /\ twinRet' = NoResult
    /\ UNCHANGED handle

\* pyproject.dev_dependencies
DevDependenciesCall ==
    LET run == DevDependencies(data)
    IN  /\ data' = run.data
        /\ pre' = data
        /\ lastOp' = "dev_dependencies"
        /\ ret' = ResultOf(run)
        /\ twinRet' = NoResult
        /\ UNCHANGED handle

\* pyproject.content_hash(), and the same call on the manifest with its keys
\* in reverse order
ContentHashCall ==
    LET run == ContentHash(data)
    IN  /\ data' = run.data
        /\ pre' = data
        /\ lastOp' = "content_hash"
        /\ ret' = ResultOf(run)
        /\ twinRet' = ResultOf(ContentHash(ReverseKeys(data)))
        /\ UNCHANGED handle

\* groups = pyproject.dependency_groups
DependencyGroupsCall ==
    LET run == DependencyGroups(data)
    IN  /\ data' = run.data
        /\ pre' = data
        /\ lastOp' = "dependency_groups"
        /\ ret' = NoResult
        /\ twinRet' = NoResult
        /\ handle' = run.handle

\* groups[key] = ["pytest"] through the table handed out
SetItem ==
    /\ handle # NoHandle
    /\ \E key \in CallerKeys :
           data' = PutAt(data, handle, key, List(<<Str("pytest")>>))
    /\ pre' = data
    /\ lastOp' = "set_item"
    /\ ret' = NoResult
    /\ twinRet' = NoResult
    /\ UNCHANGED handle

\* groups.item(key) through the table handed out
SafeItemCall ==
    /\ handle # NoHandle
    /\ \E key \in CallerKeys :
           /\ data' = SafeItem(data, handle, key)
           /\ ret' = ResultOf(Returned(data', Get(TableAt(data', handle), key, EmptyList)))
    /\ pre' = data
    /\ lastOp' = "item"
    /\ twinRet' = NoResult
    /\ UNCHANGED handle

\* pyproject.get_dependency_group_safe(name)
GetDependencyGroupSafeCall ==
    \E name \in GroupNames :
        LET run == GetDependencyGroupSafe(data, name)
        IN  /\ data' = run.data
            /\ pre' = data
            /\ lastOp' = "get_dependency_group_safe"
            /\ ret' = ResultOf(run)
            /\ twinRet' = NoResult
            /\ UNCHANGED handle

\* pyproject.write()
Write ==
    /\ data' = WritePrune(data)
    /\ pre' = data
    /\ lastOp' = "write"
    /\ ret' = NoResult
    /\ twinRet' = NoResult
    /\ UNCHANGED handle

Next ==
    \/ Metadata
    \/ Settings
    \/ DevDependenciesCall
    \/ ContentHashCall
    \/ DependencyGroupsCall
    \/ SetItem
    \/ SafeItemCall
    \/ GetDependencyGroupSafeCall
    \/ Write

Spec == Init /\ [][Next]_vars

----------------------------------------------------------------------------
(* What the properties below speak about.                                   *)

\* the normalized names of the legacy groups of a manifest
LegacyNames(d) == {NormalizeName(k) : k \in KeySet(LegacyTable(d))}

\* the normalized names of the modern groups of a manifest
ModernNames(d) == {NormalizeName(k) : k \in KeySet(ModernTable(d))}

\* a group's value as a sequence of entries (a bare value is one entry)
Flat(v) == IF IsList(v) THEN v.items ELSE <<v>>

RECURSIVE LegacyContent(_, _, _)
\* the legacy entries of normalized name n, concatenated in encounter order
LegacyContent(items, i, n) ==
    IF i > Len(items) THEN <<>>
    ELSE (IF NormalizeName(items[i].k) = n THEN Flat(items[i].v) ELSE <<>>)
         \o LegacyContent(items, i + 1, n)

\* the entries of the first modern group of normalized name n
FirstModernContent(d, n) ==
    LET items == ModernTable(d).items
        first == Min({i \in DOMAIN items : NormalizeName(items[i].k) = n})
    IN  Flat(items[first].v)

\* every entry that occurs in some group of a table
EntriesOf(t) == UNION {{Flat(t.items[i].v)[j] : j \in DOMAIN Flat(t.items[i].v)} : i \in DOMAIN t.items}

\* the entries of the merged group n
Merged(n) == Get(ret.value, n, EmptyList).items

MergedOk == lastOp = "dev_dependencies" /\ ret.status = "ok"

\* the targets of the cross-references of the modern groups that no legacy
\* group shadows, where the target is no legacy and no optional group
UnresolvedTargets(d) ==
    LET modern == ModernTable(d).items
    IN  {x \in {"Test", "test", "doc"} :
            \E i \in DOMAIN modern :
                /\ NormalizeName(modern[i].k) \notin LegacyNames(d)
                /\ IsList(modern[i].v)
                /\ \E j \in RefPositions(modern[i].v) : TargetAt(modern[i].v, j) = x
                /\ x \notin AvailableGroups(d)}

RECURSIVE NoEmptyBelow(_)
\* no table nested (through tables) inside t is empty
NoEmptyBelow(t) ==
    \A i \in DOMAIN t.items :
        IsTable(t.items[i].v) =>
            ~IsEmpty(t.items[i].v) /\ NoEmptyBelow(t.items[i].v)

\* the document holds a tool.pdm table
HasPdm(d) == Has(d, "tool") /\ Has(Get(d, "tool", EmptyTable), "pdm")

----------------------------------------------------------------------------
(* The properties.                                                          *)

C2_BadReferenceRejected ==
    (lastOp = "dev_dependencies" /\ UnresolvedTargets(pre) # {}) =>
        /\ ret.status = "error"
        /\ ret.missing \in UnresolvedTargets(pre)
        /\ ret.value = EmptyTable

\* C3: when dev_dependencies returns, the keys of the merged result are
\* exactly the normalized names of the legacy and of the modern groups,
\* each once; the names of optional-dependencies are not added.
C3_KeysAreAllNames ==
    MergedOk =>
        /\ KeySet(ret.value) = LegacyNames(pre) \cup ModernNames(pre)
        /\ Cardinality(KeySet(ret.value)) = Len(ret.value.items)

\* a legacy key that normalization changes, a modern table, and an optional
\* group that is no key of the result
C3_Witness ==
    /\ MergedOk
    /\ Has(LegacyTable(pre), "Test")
    /\ ~IsEmpty(ModernTable(pre))
    /\ Has(OptionalTable(pre), "doc")
    /\ ~Has(ret.value, "doc")

\* C4: when dev_dependencies returns, no merged group holds a cross-reference
\* whose target is a legacy or an optional group: the target's requirement
\* strings stand in its place.
C4_ReferenceExpanded ==
    MergedOk =>
        \A n \in KeySet(ret.value) \ LegacyNames(pre) :
            \A j \in DOMAIN Merged(n) :
                ~(/\ IsIncludeGroup(Merged(n)[j])
                  /\ TargetAt(List(Merged(n)), j) \in AvailableGroups(pre))

\* C5: content_hash hashes the same text for a manifest and for the same
\* manifest with the keys of its tables in another order (or raises for both).
C5_KeyOrderIndependent ==
    lastOp = "content_hash" =>
        /\ ret.status = twinRet.status
        /\ ret.value = twinRet.value

\* C6: dev_dependencies, get_dependency_group_safe and content_hash leave the
\* document as it was, whether they return or raise.
C6_QueriesDoNotMutate ==
    lastOp \in {"dev_dependencies", "get_dependency_group_safe", "content_hash"} =>
        data = pre

\* C7: with the modern table empty or absent and the legacy table non-empty,
\* dependency_groups hands out the legacy table and creates no
\* dependency-groups table.
C7_LegacyFallback ==
    (/\ lastOp = "dependency_groups"
     /\ IsEmpty(ModernTable(pre))
     /\ ~IsEmpty(LegacyTable(pre))) =>
        /\ handle = LegacyPath
        /\ Has(data, "dependency-groups") = Has(pre, "dependency-groups")

\* C8: with the modern and the legacy table both empty or absent,
\* dependency_groups creates and hands out the dependency-groups table, a
\* group written through it is stored under dependency-groups, and a
\* document without a tool.pdm table stays without one.
C8_DefaultsToModern ==
    /\ (/\ lastOp = "dependency_groups"
        /\ IsEmpty(ModernTable(pre))
        /\ IsEmpty(LegacyTable(pre))) =>
            /\ handle = ModernPath
            /\ Has(data, "dependency-groups")
            /\ HasPdm(data) = HasPdm(pre)
            /\ IsEmpty(LegacyTable(data))
    /\ (lastOp = "set_item" /\ IsEmpty(LegacyTable(pre))) =>
            /\ \E key \in CallerKeys :
                   Get(ModernTable(data), key, EmptyList) = List(<<Str("pytest")>>)
            /\ HasPdm(data) = HasPdm(pre)
            /\ IsEmpty(LegacyTable(data))

\* a group written through the table handed out on a manifest without groups
C8_Witness ==
    /\ lastOp = "set_item"
    /\ ~Has(data, "tool")
    /\ ModernTable(data) = Table(<<Entry("test", List(<<Str("pytest")>>))>>)

\* C9 as stated: after the pruning of write() the document holds no empty
\* table at all, the tool.pdm table and the top-level tables included.
C9_NoEmptyTableAnywhere ==
    lastOp = "write" => NoEmptyBelow(data)

\* C9 as amended: after the pruning of write() no table nested inside
\* project or inside tool.pdm is empty; project, tool, tool.pdm and the other
\* top-level tables stay even when empty.
C9_NoEmptyTableInsideProjectAndPdm ==
    lastOp = "write" =>
        /\ NoEmptyBelow(MetadataOf(data))
        /\ NoEmptyBelow(SettingsOf(data))
        /\ KeySet(data) = KeySet(pre)
        /\ HasPdm(data) = HasPdm(pre)

\* a write() that removed a table which was empty only below its own level
C9_Witness ==
    /\ lastOp = "write"
    /\ Has(SettingsOf(pre), "resolution")
    /\ ~IsEmpty(Get(SettingsOf(pre), "resolution", EmptyTable))
    /\ ~Has(SettingsOf(data), "resolution")
    /\ Has(MetadataOf(pre), "optional-dependencies")
    /\ ~Has(MetadataOf(data), "optional-dependencies")

====
